---------------------------- MODULE Spec2Model ----------------------------
(***************************************************************************)
(* A model of Lab_12.py: the synthetic sales data generator, the chart     *)
(* builder with its group-by-sum aggregation, the report writer and the    *)
(* main() run that strings them together behind one try/except.            *)
(*                                                                         *)
(* Strings that the program inspects (the filename) are sequences of       *)
(* one-character strings.  A DataFrame is the sequence of its rows.  A     *)
(* Timestamp is its day number since 1970-01-01.                           *)
(*                                                                         *)
(* Environment assumptions: print() does not fail, and no asynchronous     *)
(* BaseException (KeyboardInterrupt, SystemExit) is delivered.             *)
(***************************************************************************)
EXTENDS Integers, Sequences, FiniteSets, TLC

VARIABLES
    pc,                \* the stage main() is about to execute
    input_status,      \* "pending", "line" (input() returned), "EOF" (it raised)
    raw_input,         \* the line input() returned, before .strip()
    user_filename,     \* main's local user_filename (<<>> outside its lifetime)
    out,               \* what print() has written, one tag per message
    trace,             \* history: the stages entered, in order
    raised,            \* history: <<>> or <<[cls, stage]>>, the exception caught
    output_path,       \* bokeh's output_file state: <<>> or <<filename>>
    fs,                \* the files this run created or truncated
    df,                \* main's local df, the rows of the DataFrame (<<>> outside its lifetime)
    dashboard_layout,  \* main's local dashboard_layout (NoLayout outside its lifetime)
    rng,               \* the state of the process-global np.random generator
    calls,             \* history: the generate_sales_data calls and their results
    otherUses          \* how often other code drew from np.random

vars == <<pc, input_status, raw_input, user_filename, out, trace, raised,
          output_path, fs, df, dashboard_layout, rng, calls, otherUses>>

---------------------------------------------------------------------------
(* Bounds of the model. *)

\* longest run of characters put before the filename's tail
MaxStem == 2
\* states the generator may be in when the process starts: 0..MaxEntropy
MaxEntropy == 1
\* largest explicit rows argument (the default, 100, is always included)
MaxRows == 3
\* generate_sales_data calls in one behaviour of SpecGen
MaxCalls == 2
\* draws other code makes from np.random in one behaviour of SpecGen
MaxOtherUses == 2
\* longest DataFrame handed to create_dashboard in SpecAgg
MaxData == 3

---------------------------------------------------------------------------
(* Strings. *)

NUL == "\\0"
Whitespace == {" ", "\t"}
Ext == <<".", "h", "t", "m", "l">>

RECURSIVE lstrip(_)
lstrip(s) ==
    IF s # <<>> /\ Head(s) \in Whitespace THEN lstrip(Tail(s)) ELSE s

RECURSIVE rstrip(_)
rstrip(s) ==
    IF s # <<>> /\ s[Len(s)] \in Whitespace
    THEN rstrip(SubSeq(s, 1, Len(s) - 1))
    ELSE s

\* a strip that removes nothing
StripNone(s) == s

\* str.strip(): leading and trailing whitespace removed
strip(s) == rstrip(lstrip(s))

\* str.endswith(suffix)
endswith(s, suffix) ==
    /\ Len(s) >= Len(suffix)
    /\ \A i \in 1..Len(suffix) : s[Len(s) - Len(suffix) + i] = suffix[i]

\* the extension appended without looking at the name
NormalizeAlwaysAppend(name) == name \o Ext

\* lines 99-100: if not user_filename.endswith(".html"): user_filename += ".html"
Normalize(name) == IF ~endswith(name, Ext) THEN name \o Ext ELSE name

\* open() refuses a path that holds a NUL character
HasNul(s) == \E i \in 1..Len(s) : s[i] = NUL

\* the sequences over S of length up to n
RECURSIVE SeqsUpTo(_, _)
SeqsUpTo(S, n) ==
    IF n = 0 THEN {<<>>}
    ELSE LET shorter == SeqsUpTo(S, n - 1)
         IN  shorter \cup {Append(s, c) : s \in shorter, c \in S}

\* what the user types: some characters, then a piece of ".html", then at
\* most one more character
StemChars == {" ", "\t", "r", NUL}
Stems == SeqsUpTo(StemChars, MaxStem)
Tails == {<<>>} \cup {SubSeq(Ext, i, j) : i \in 1..Len(Ext), j \in 1..Len(Ext)}
Trailers == SeqsUpTo(StemChars, 1)
Inputs == {a \o t \o b : a \in Stems, t \in Tails, b \in Trailers}

---------------------------------------------------------------------------
(* The process-global pseudo-random generator, np.random.  What the code   *)
(* relies on is kept: the generator is a deterministic function of its     *)
(* state, seed() sets the state from the seed alone, every draw advances   *)
(* the state, and randint(low, high) lies in [low, high).  The Mersenne    *)
(* Twister itself is replaced by a 16-bit linear congruential generator.   *)

SeedValue == 42

\* np.random.seed(n): the state is a function of n alone
seed(n) == n % 65536

\* one step of the generator
NextState(s) == (25173 * s + 13849) % 65536

\* the number a state yields (its high bits)
Output(s) == s \div 64

\* the k states that follow s, in order
RECURSIVE Stream(_, _)
Stream(s, k) ==
    IF k = 0 THEN <<>>
    ELSE IF k = 1 THEN <<NextState(s)>>
    ELSE LET left == Stream(s, k \div 2)
         IN  left \o Stream(left[Len(left)], k - (k \div 2))

\* a randint that forgets its lower end
randint_lowdropped(s, low, high, size) ==
    LET states == Stream(s, size)
    IN  [vals |-> [i \in 1..size |-> Output(states[i]) % high],
         rng |-> IF size = 0 THEN s ELSE states[size]]

\* np.random.randint(low, high, size): size draws, each in [low, high)
randint(s, low, high, size) ==
    LET states == Stream(s, size)
    IN  [vals |-> [i \in 1..size |-> low + (Output(states[i]) % (high - low))],
         rng |-> IF size = 0 THEN s ELSE states[size]]

\* np.random.choice(a, size): a[randint(0, len(a), size)]
choice(s, a, size) ==
    LET r == randint(s, 0, Len(a), size)
    IN  [vals |-> [i \in 1..size |-> a[r.vals[i] + 1]], rng |-> r.rng]

---------------------------------------------------------------------------
(* generate_sales_data *)

DefaultRows == 100
Epoch == 19358          \* 2023-01-01 as days since 1970-01-01
FreqDays == 3
SalesLow == 100
SalesHigh == 1000
ProfitLow == 10
ProfitHigh == 300

categories == <<"Electronics", "Clothing", "Home", "Garden", "Toys", "Sports">>

\* pd.date_range(start, periods, freq): periods timestamps, freq apart
date_range(start, periods, freq) ==
    [i \in 1..periods |-> start + freq * (i - 1)]

\* pd.DataFrame(data): row i takes the i-th entry of every column
DataFrame(data) ==
    [i \in 1..Len(data.Date) |->
        [Date |-> data.Date[i], Category |-> data.Category[i],
         Sales |-> data.Sales[i], Profit |-> data.Profit[i]]]

\* two ascending frames merged; of two rows with one Date the left one is first
RECURSIVE MergeByDate(_, _)
MergeByDate(left, right) ==
    IF left = <<>> THEN right
    ELSE IF right = <<>> THEN left
    ELSE IF left[Len(left)].Date <= Head(right).Date THEN left \o right
    ELSE IF Head(left).Date <= Head(right).Date
         THEN <<Head(left)>> \o MergeByDate(Tail(left), right)
         ELSE <<Head(right)>> \o MergeByDate(left, Tail(right))

\* the rows in ascending order of Date (the dates date_range yields are
\* distinct, so every sorting algorithm returns this frame)
RECURSIVE SortByDate(_)
SortByDate(frame) ==
    IF Len(frame) <= 1 THEN frame
    ELSE MergeByDate(SortByDate(SubSeq(frame, 1, Len(frame) \div 2)),
                     SortByDate(SubSeq(frame, (Len(frame) \div 2) + 1, Len(frame))))

\* a sort with ascending=False
sort_values_descending(frame) ==
    LET ascending == SortByDate(frame)
    IN  [k \in 1..Len(frame) |-> ascending[Len(frame) + 1 - k]]

\* df.sort_values('Date')
sort_values(frame) == SortByDate(frame)

\* lines 17-23: the columns are drawn one after the other from state s
build_frame(s, rows) ==
    LET cat == choice(s, categories, rows)
        sales == randint(cat.rng, SalesLow, SalesHigh, rows)
        profit == randint(sales.rng, ProfitLow, ProfitHigh, rows)
        data == [Date |-> date_range(Epoch, rows, FreqDays),
                 Category |-> cat.vals,
                 Sales |-> sales.vals,
                 Profit |-> profit.vals]
    IN  [df |-> DataFrame(data), rng |-> profit.rng]

\* the generator without line 14: it draws from the state it finds
generate_sales_data_unseeded(s, rows) ==
    LET built == build_frame(s, rows)
    IN  [df |-> sort_values(built.df), rng |-> built.rng]

\* generate_sales_data(rows) called with the generator in state s: the
\* DataFrame returned and the state the generator is left in
generate_sales_data(s, rows) ==
    LET built == build_frame(seed(SeedValue), rows)
    IN  [df |-> sort_values(built.df), rng |-> built.rng]

---------------------------------------------------------------------------
(* create_dashboard *)

\* the code points of the category names, which order them as Python strings
CodePoints ==
    [Electronics |-> <<69, 108, 101, 99, 116, 114, 111, 110, 105, 99, 115>>,
     Clothing |-> <<67, 108, 111, 116, 104, 105, 110, 103>>,
     Home |-> <<72, 111, 109, 101>>,
     Garden |-> <<71, 97, 114, 100, 101, 110>>,
     Toys |-> <<84, 111, 121, 115>>,
     Sports |-> <<83, 112, 111, 114, 116, 115>>]

\* a < b for sequences of code points
RECURSIVE LexLess(_, _)
LexLess(a, b) ==
    IF b = <<>> THEN FALSE
    ELSE IF a = <<>> THEN TRUE
    ELSE IF Head(a) # Head(b) THEN Head(a) < Head(b)
    ELSE LexLess(Tail(a), Tail(b))

StrLess(x, y) == LexLess(CodePoints[x], CodePoints[y])

\* the keys of a group-by in sorted order (groupby's default, sort=True)
RECURSIVE SortedKeys(_)
SortedKeys(S) ==
    IF S = {} THEN <<>>
    ELSE LET least == CHOOSE k \in S : \A other \in S \ {k} : StrLess(k, other)
         IN  <<least>> \o SortedKeys(S \ {least})

\* whether row i is the first row of its group
IsFirstOfGroup(frame, i) ==
    \A j \in 1..(i - 1) : frame[j].Category # frame[i].Category

\* the keys in the order in which the frame first shows them (sort=False)
FirstAppearance(frame) ==
    LET firsts == {i \in 1..Len(frame) : IsFirstOfGroup(frame, i)}
    IN  [k \in 1..Cardinality(firsts) |->
            frame[CHOOSE i \in firsts :
                     Cardinality({j \in firsts : j < i}) = k - 1].Category]

\* the Sales of the rows lo..hi that belong to one group, added up
RECURSIVE GroupSumRange(_, _, _, _)
GroupSumRange(frame, key, lo, hi) ==
    IF lo > hi THEN 0
    ELSE IF lo = hi
         THEN (IF frame[lo].Category = key THEN frame[lo].Sales ELSE 0)
         ELSE GroupSumRange(frame, key, lo, (lo + hi) \div 2)
              + GroupSumRange(frame, key, ((lo + hi) \div 2) + 1, hi)

GroupSum(frame, key) == GroupSumRange(frame, key, 1, Len(frame))

\* the Sales of the first row of one group
GroupFirst(frame, key) ==
    frame[CHOOSE i \in 1..Len(frame) :
             frame[i].Category = key /\ IsFirstOfGroup(frame, i)].Sales

\* a group-by that keeps the first Sales of a group (first() for sum())
groupby_first(frame) ==
    LET keys == SortedKeys({frame[i].Category : i \in 1..Len(frame)})
    IN  [k \in 1..Len(keys) |->
            [Category |-> keys[k], Sales |-> GroupFirst(frame, keys[k])]]

\* the group-by with sort=False
groupby_sum_unsorted(frame) ==
    LET keys == FirstAppearance(frame)
    IN  [k \in 1..Len(keys) |->
            [Category |-> keys[k], Sales |-> GroupSum(frame, keys[k])]]

\* line 59: df.groupby('Category')['Sales'].sum().reset_index()
groupby_sum(frame) ==
    LET keys == SortedKeys({frame[i].Category : i \in 1..Len(frame)})
    IN  [k \in 1..Len(keys) |->
            [Category |-> keys[k], Sales |-> GroupSum(frame, keys[k])]]

\* create_dashboard(df): the column layout of the two figures
create_dashboard(frame) ==
    LET df_grouped == groupby_sum(frame)
        categories_list == [k \in 1..Len(df_grouped) |-> df_grouped[k].Category]
        p_line == [x |-> "Date", y |-> "Sales", source |-> frame,
                   glyphs |-> <<"line", "scatter">>]
        p_bar == [x_range |-> categories_list, x |-> "Category",
                  top |-> "Sales", source |-> df_grouped,
                  factors |-> categories_list, glyphs |-> <<"vbar">>]
    IN  [children |-> <<p_line, p_bar>>]

\* the layout before create_dashboard has returned
NoLayout == [children |-> <<>>]

---------------------------------------------------------------------------
(* save_report *)

\* the document save() writes for a layout, and a file cut short
Html(layout) == [complete |-> TRUE, layout |-> layout]
Partial == [complete |-> FALSE, layout |-> NoLayout]

---------------------------------------------------------------------------
(* main *)

\* the exception classes that reach main's handlers, each with its base class
Base ==
    [ValueError |-> "Exception", OSError |-> "Exception",
     EOFError |-> "Exception", MemoryError |-> "Exception",
     Exception |-> "BaseException"]

RECURSIVE isinstance(_, _)
isinstance(cls, of) ==
    IF cls = of THEN TRUE
    ELSE IF cls = "BaseException" THEN FALSE
    ELSE isinstance(Base[cls], of)

\* lines 116-121: the first except clause that matches prints its message
Handler(cls) ==
    IF isinstance(cls, "ValueError") THEN "InputError"           \* "Помилка вводу: ..."
    ELSE IF isinstance(cls, "OSError") THEN "IOFailure"          \* "Помилка доступу до файлової системи: ..."
    ELSE IF isinstance(cls, "Exception") THEN "UnexpectedFailure" \* "Виникла неочікувана помилка: ..."
    ELSE "uncaught"

ErrorMessages == {"InputError", "IOFailure", "UnexpectedFailure"}

\* main returns after printing message: its locals are gone
Return(status, message) ==
    /\ pc' = status
    /\ out' = Append(out, message)
    /\ trace' = Append(trace, status)
    /\ user_filename' = <<>>
    /\ df' = <<>>
    /\ dashboard_layout' = NoLayout

\* handlers that ask for the filename again
ExceptRetry(cls, stage) ==
    /\ raised' = <<[cls |-> cls, stage |-> stage]>>
    /\ pc' = "AwaitFilename"
    /\ out' = Append(out, Handler(cls))
    /\ trace' = Append(trace, "AwaitFilename")
    /\ input_status' = "pending"
    /\ UNCHANGED <<user_filename, df, dashboard_layout>>

\* an exception of class cls raised in stage: a handler prints its message and
\* main returns, or no clause matches and the exception leaves main
Except(cls, stage) ==
    /\ raised' = <<[cls |-> cls, stage |-> stage]>>
    /\ input_status' = IF stage = "AwaitFilename" /\ cls = "EOFError"
                       THEN "EOF" ELSE "line"
    /\ IF Handler(cls) \in ErrorMessages
       THEN Return("Failed", Handler(cls))
       ELSE /\ pc' = "Crashed"
            /\ trace' = Append(trace, "Crashed")
            /\ user_filename' = <<>>
            /\ df' = <<>>
            /\ dashboard_layout' = NoLayout
            /\ UNCHANGED out

\* a stage returned: the next progress message is printed, the next stage entered
Advance(message, stage) ==
    /\ pc' = stage
    /\ out' = Append(out, message)
    /\ trace' = Append(trace, stage)
    /\ input_status' = "line"
    /\ UNCHANGED raised

\* lines 94-102: input(), strip, the emptiness check, the extension
ReadFilename ==
    /\ pc = "AwaitFilename"
    /\ input_status = "pending"
    /\ \/ \E line \in Inputs :
            /\ raw_input' = line
            /\ IF strip(line) = <<>>
               THEN Except("ValueError", "AwaitFilename")
               ELSE /\ user_filename' = Normalize(strip(line))
                    /\ Advance("step1", "Generate")
                    /\ UNCHANGED <<df, dashboard_layout>>
       \/ /\ Except("EOFError", "AwaitFilename")
          /\ UNCHANGED raw_input
    /\ UNCHANGED <<output_path, fs, rng, calls, otherUses>>

\* lines 103-105: df = generate_sales_data()
Generate ==
    /\ pc = "Generate"
    /\ \/ /\ Except("MemoryError", "Generate")
          /\ UNCHANGED rng
       \/ /\ LET returned == generate_sales_data(rng, DefaultRows)
             IN  df' = returned.df /\ rng' = returned.rng
          /\ Advance("step2", "Build")
          /\ UNCHANGED <<user_filename, dashboard_layout>>
    /\ UNCHANGED <<raw_input, output_path, fs, calls, otherUses>>

\* lines 106-108: dashboard_layout = create_dashboard(df)
Build ==
    /\ pc = "Build"
    /\ \/ Except("MemoryError", "Build")
       \/ /\ dashboard_layout' = create_dashboard(df)
          /\ Advance("step3", "Write")
          /\ UNCHANGED <<user_filename, df>>
    /\ UNCHANGED <<raw_input, output_path, fs, rng, calls, otherUses>>

\* lines 109-111 and 83-84: output_file(filename); save(layout) renders the
\* document, opens the file for writing (which creates or truncates it) and
\* writes the document
Write ==
    /\ pc = "Write"
    /\ output_path' = <<user_filename>>
    /\ \/ /\ Except("MemoryError", "Write")          \* rendering fails
          /\ UNCHANGED fs
       \/ /\ HasNul(user_filename)                   \* open(): embedded null byte
          /\ Except("ValueError", "Write")
          /\ UNCHANGED fs
       \/ /\ ~HasNul(user_filename)                  \* open() fails: path not writable
          /\ Except("OSError", "Write")
          /\ UNCHANGED fs
       \/ /\ ~HasNul(user_filename)                  \* write() fails: disk full
          /\ fs' = {[path |-> user_filename, content |-> Partial]}
          /\ Except("OSError", "Write")
       \/ /\ ~HasNul(user_filename)
          /\ fs' = {[path |-> user_filename, content |-> Html(dashboard_layout)]}
          /\ Return("Done", "success")
          /\ UNCHANGED <<raised, input_status>>
    /\ UNCHANGED <<raw_input, rng, calls, otherUses>>

\* line 90 has printed the banner; the generator is in whatever state the
\* process start left it in
Init ==
    /\ pc = "AwaitFilename"
    /\ input_status = "pending"
    /\ raw_input = <<>>
    /\ user_filename = <<>>
    /\ out = <<"banner">>
    /\ trace = <<"AwaitFilename">>
    /\ raised = <<>>
    /\ output_path = <<>>
    /\ fs = {}
    /\ df = <<>>
    /\ dashboard_layout = NoLayout
    /\ rng \in 0..MaxEntropy
    /\ calls = <<>>
    /\ otherUses = 0

Next == ReadFilename \/ Generate \/ Build \/ Write

Spec == Init /\ [][Next]_vars

\* main runs to its end: no step that is enabled is put off for ever
FairSpec == Spec /\ WF_vars(Next)

---------------------------------------------------------------------------
(* generate_sales_data called by any code of the process, any number of    *)
(* times, with other draws from np.random before and between the calls.    *)

RowArgs == (0..MaxRows) \cup {DefaultRows}

InitGen ==
    /\ pc = "Library"
    /\ input_status = "pending"
    /\ raw_input = <<>>
    /\ user_filename = <<>>
    /\ out = <<>>
    /\ trace = <<>>
    /\ raised = <<>>
    /\ output_path = <<>>
    /\ fs = {}
    /\ df = <<>>
    /\ dashboard_layout = NoLayout
    /\ rng \in 0..MaxEntropy
    /\ calls = <<>>
    /\ otherUses = 0

\* a call generate_sales_data(rows); the state it found the generator in is
\* kept with its result
CallGenerate ==
    /\ Len(calls) < MaxCalls
    /\ \E rows \in RowArgs :
          LET returned == generate_sales_data(rng, rows)
          IN  /\ df' = returned.df
              /\ rng' = returned.rng
              /\ calls' = Append(calls, [rows |-> rows, before |-> rng,
                                         df |-> returned.df])
    /\ UNCHANGED <<pc, input_status, raw_input, user_filename, out, trace,
                   raised, output_path, fs, dashboard_layout, otherUses>>

\* other code draws a number from np.random
OtherRandomUse ==
    /\ otherUses < MaxOtherUses
    /\ rng' = NextState(rng)
    /\ otherUses' = otherUses + 1
    /\ UNCHANGED <<pc, input_status, raw_input, user_filename, out, trace,
                   raised, output_path, fs, df, dashboard_layout, calls>>

NextGen == CallGenerate \/ OtherRandomUse

SpecGen == InitGen /\ [][NextGen]_vars

---------------------------------------------------------------------------
(* create_dashboard handed any Dataset: main stands before line 106 with   *)
(* a DataFrame of up to MaxData rows.                                      *)

SalesValues == {SalesLow, SalesHigh - 1}

RowsAt(i) ==
    {[Date |-> Epoch + FreqDays * (i - 1), Category |-> categories[c],
      Sales |-> v, Profit |-> ProfitLow] :
        c \in 1..Len(categories), v \in SalesValues}

RECURSIVE DatasetsOfLen(_)
DatasetsOfLen(n) ==
    IF n = 0 THEN {<<>>}
    ELSE {Append(d, r) : d \in DatasetsOfLen(n - 1), r \in RowsAt(n)}

Datasets == UNION {DatasetsOfLen(n) : n \in 0..MaxData}

InitAgg ==
    /\ pc = "Build"
    /\ input_status = "line"
    /\ raw_input = <<"r">>
    /\ user_filename = Normalize(strip(<<"r">>))
    /\ out = <<"banner", "step1", "step2">>
    /\ trace = <<"AwaitFilename", "Generate", "Build">>
    /\ raised = <<>>
    /\ output_path = <<>>
    /\ fs = {}
    /\ df \in Datasets
    /\ dashboard_layout = NoLayout
    /\ rng = 0
    /\ calls = <<>>
    /\ otherUses = 0

NextAgg == Build

SpecAgg == InitAgg /\ [][NextAgg]_vars

---------------------------------------------------------------------------
(* Properties of a run of main. *)

Stages == <<"AwaitFilename", "Generate", "Build", "Write", "Done">>

Entered(stage) == \E i \in 1..Len(trace) : trace[i] = stage

Printed(message) == \E i \in 1..Len(out) : out[i] = message

ErrorsPrinted == Cardinality({i \in 1..Len(out) : out[i] \in ErrorMessages})

\* the line typed holds nothing but whitespace
Blank(line) == \A i \in 1..Len(line) : line[i] \in Whitespace

\* the stages are entered in their order, each at most once, each after the
\* one before it has returned its result, and the run is Failed or Done
\* exactly when the one message that goes with that has been printed
LinearRun ==
    /\ pc = trace[Len(trace)]
    /\ \E n \in 1..Len(Stages) :
          \/ trace = SubSeq(Stages, 1, n)
          \/ n < Len(Stages) /\ trace = Append(SubSeq(Stages, 1, n), "Failed")
    /\ pc \in {"Build", "Write"} => Len(df) = DefaultRows
    /\ pc = "Write" => dashboard_layout # NoLayout
    /\ pc = "Done" => \E file \in fs : file.content.complete
    /\ pc = "Done" => out[Len(out)] = "success" /\ ErrorsPrinted = 0
    /\ pc = "Failed" =>
          /\ out[Len(out)] \in ErrorMessages
          /\ ErrorsPrinted = 1
          /\ ~Printed("success")
          /\ raised # <<>>
    /\ pc \notin {"Done", "Failed"} => ErrorsPrinted = 0 /\ ~Printed("success")
    /\ raised # <<>> => pc = "Failed"

Ended == pc \in {"Done", "Failed"}

\* C1: a run goes AwaitFilename, Generate, Build, Write in that order, each
\* stage entered at most once and only after the one before it completed; it
\* never goes back to AwaitFilename; and it ends in Done with the success
\* message or in Failed with one error message, no exception leaving main.
C1_LinearRunEnds ==
    /\ []LinearRun
    /\ [][pc' # "AwaitFilename"]_vars
    /\ <>Ended

C1_Witness == pc = "Done" /\ trace = Stages

\* C2: a filename that is empty once trimmed (nothing typed, or only
\* whitespace) gets the InputError message and the run is Failed without
\* Generate, Build or Write being entered and without any file.
C2_BlankRejected ==
    (input_status = "line" /\ Blank(raw_input)) =>
        /\ pc = "Failed"
        /\ trace = <<"AwaitFilename", "Failed">>
        /\ out = <<"banner", "InputError">>
        /\ fs = {}
        /\ output_path = <<>>

C2_Witness == raw_input = <<" ", " ">> /\ pc = "Failed"

\* the name main should hand on for the line typed
ExpectedPath(line) ==
    LET f == strip(line)
    IN  IF Len(f) >= Len(Ext) /\ SubSeq(f, Len(f) - Len(Ext) + 1, Len(f)) = Ext
        THEN f
        ELSE f \o Ext

\* C3: for a filename f that is not blank once trimmed, the path main holds,
\* hands to the Write stage and writes to is f when f ends with ".html" and
\* f + ".html" otherwise; it always ends with ".html" and normalizing it
\* again changes nothing.
C3_PathNormalized ==
    (input_status = "line" /\ ~Blank(raw_input)) =>
        /\ pc \in {"Generate", "Build", "Write"} =>
              user_filename = ExpectedPath(raw_input)
        /\ output_path \in {<<>>, <<ExpectedPath(raw_input)>>}
        /\ Entered("Write") /\ pc # "Write" => output_path = <<ExpectedPath(raw_input)>>
        /\ \A file \in fs : file.path = ExpectedPath(raw_input)
        /\ endswith(ExpectedPath(raw_input), Ext)
        /\ Normalize(ExpectedPath(raw_input)) = ExpectedPath(raw_input)

C3_Witness ==
    /\ pc = "Done"
    /\ raw_input = <<" ", "r">> \o Ext \o <<" ">>
    /\ output_path = <<(<<"r">> \o Ext)>>
    /\ \E file \in fs : file.path = <<"r">> \o Ext

\* C9: a failure raised in Generate, Build or Write is reported by what it
\* is, IOFailure for a file-system failure and UnexpectedFailure for any
\* other; InputError is reported for a blank filename only.
C9_FailuresClassified ==
    /\ (raised # <<>> /\ raised[1].stage \in {"Generate", "Build", "Write"}) =>
          out[Len(out)] = (IF isinstance(raised[1].cls, "OSError")
                           THEN "IOFailure"
                           ELSE "UnexpectedFailure")
    /\ Printed("InputError") => (input_status = "line" /\ Blank(raw_input))

\* C10: the file write is the only step with a side effect; it happens at
\* most once and only after Generate and Build completed; a run that is
\* Failed has left the file system as it was; the success message follows a
\* completed write.
C10_WriteIsSoleEffect ==
    /\ Cardinality(fs) <= 1
    /\ fs # {} => trace \in {SubSeq(Stages, 1, 4) \o <<"Failed">>, Stages}
    /\ pc = "Failed" => fs = {}
    /\ Printed("success") =>
          \E file \in fs : file.path = output_path[1] /\ file.content.complete

---------------------------------------------------------------------------
(* Properties of generate_sales_data. *)

\* C4: two calls with the same rows return the same Dataset, record by
\* record, whatever state they found the generator in.
C4_Deterministic ==
    \A i, j \in 1..Len(calls) :
        calls[i].rows = calls[j].rows => calls[i].df = calls[j].df

C4_Witness ==
    \E i, j \in 1..Len(calls) :
        /\ i < j
        /\ calls[i].rows = calls[j].rows
        /\ calls[i].rows > 0
        /\ calls[i].before # calls[j].before
        /\ otherUses > 0

CategorySet == {categories[c] : c \in 1..Len(categories)}

\* C5: for a positive rows the Dataset has exactly rows records, each with a
\* Category of the six, 100 <= Sales < 1000 and 10 <= Profit < 300.
C5_RecordsInRange ==
    \A i \in 1..Len(calls) :
        calls[i].rows > 0 =>
            /\ Len(calls[i].df) = calls[i].rows
            /\ \A k \in 1..Len(calls[i].df) :
                  /\ calls[i].df[k].Category \in CategorySet
                  /\ SalesLow <= calls[i].df[k].Sales
                  /\ calls[i].df[k].Sales < SalesHigh
                  /\ ProfitLow <= calls[i].df[k].Profit
                  /\ calls[i].df[k].Profit < ProfitHigh

C5_Witness ==
    \E i \in 1..Len(calls) :
        /\ calls[i].rows = DefaultRows
        /\ Len(calls[i].df) = DefaultRows
        /\ Cardinality({calls[i].df[k].Category : k \in 1..DefaultRows}) = Len(categories)

\* C6: the record at position i, counted from 0, is dated 2023-01-01 plus 3*i
\* days, so the dates strictly increase and the sort by Date returns the
\* records in the order in which they were generated.
C6_DatesAscending ==
    \A i \in 1..Len(calls) :
        /\ \A k \in 1..Len(calls[i].df) :
              calls[i].df[k].Date = Epoch + FreqDays * (k - 1)
        /\ \A k \in 1..(Len(calls[i].df) - 1) :
              calls[i].df[k].Date < calls[i].df[k + 1].Date
        /\ calls[i].df = build_frame(seed(SeedValue), calls[i].rows).df

C6_Witness ==
    \E i \in 1..Len(calls) :
        /\ calls[i].rows = DefaultRows
        /\ calls[i].df[DefaultRows].Date = Epoch + FreqDays * (DefaultRows - 1)

---------------------------------------------------------------------------
(* Properties of the aggregation in create_dashboard. *)

Built == dashboard_layout # NoLayout

\* the data behind the bars and the range of the bar chart's x axis
AggregatedRows == dashboard_layout.children[2].source
BarDomain == dashboard_layout.children[2].x_range

\* the Sales of the rows whose index is in S, added up
RECURSIVE SalesOver(_, _)
SalesOver(frame, S) ==
    IF S = {} THEN 0
    ELSE LET i == CHOOSE x \in S : TRUE
         IN  frame[i].Sales + SalesOver(frame, S \ {i})

RowsOf(frame, category) == {i \in 1..Len(frame) : frame[i].Category = category}

Present(frame) == {frame[i].Category : i \in 1..Len(frame)}

\* C7: one AggregatedRow for each Category present and none for any other,
\* each holding the sum of the Sales of its Category; the rows' totals add up
\* to the Sales of the whole Dataset; one Category present gives one row
\* with the whole total.
C7_AggregationLaw ==
    Built =>
        /\ Len(AggregatedRows) = Cardinality(Present(df))
        /\ {AggregatedRows[k].Category : k \in 1..Len(AggregatedRows)} = Present(df)
        /\ \A k \in 1..Len(AggregatedRows) :
              AggregatedRows[k].Sales =
                  SalesOver(df, RowsOf(df, AggregatedRows[k].Category))
        /\ SalesOver(AggregatedRows, 1..Len(AggregatedRows)) =
              SalesOver(df, 1..Len(df))
        /\ Cardinality(Present(df)) = 1 =>
              /\ Len(AggregatedRows) = 1
              /\ AggregatedRows[1].Sales = SalesOver(df, 1..Len(df))

C7_Witness ==
    /\ Built
    /\ Len(df) = MaxData
    /\ Cardinality(Present(df)) = 2
    /\ \E k \in 1..Len(AggregatedRows) :
          AggregatedRows[k].Sales = SalesLow + (SalesHigh - 1)

\* C8 as claimed: the AggregatedRows, and the bar chart's x axis with them,
\* list the categories in the order of their first appearance in the Dataset.
C8_FirstAppearanceOrder ==
    Built =>
        /\ BarDomain = FirstAppearance(df)
        /\ BarDomain = [k \in 1..Len(AggregatedRows) |-> AggregatedRows[k].Category]

\* C8 as amended: the AggregatedRows list the categories present in
\* ascending order of their names, whatever their order in the Dataset, and
\* the bar chart's x axis takes that order over without sorting again.
C8_SortedKeyOrder ==
    Built =>
        /\ BarDomain = [k \in 1..Len(AggregatedRows) |-> AggregatedRows[k].Category]
        /\ {BarDomain[k] : k \in 1..Len(BarDomain)} = Present(df)
        /\ \A k \in 1..(Len(BarDomain) - 1) :
              LexLess(CodePoints[BarDomain[k]], CodePoints[BarDomain[k + 1]])

C8_Witness ==
    /\ Built
    /\ Len(df) >= 2
    /\ df[1].Category = "Toys"
    /\ df[2].Category = "Clothing"
    /\ BarDomain[1] = "Clothing"
    /\ BarDomain # FirstAppearance(df)

=============================================================================
